---- MODULE Spec2Model ----
(***************************************************************************)
(* Model of the inventory page (src/src/pages/Inventory.tsx) and of the    *)
(* inventory_items table with its row level security policies              *)
(* (src/unnamed/part_000).                                                 *)
(*                                                                         *)
(* Strings are sequences of one-character strings, so that trim(),         *)
(* toLowerCase() and includes() are computed and not assumed.  A nullable  *)
(* value is <<>> (null) or <<v>>.                                          *)
(***************************************************************************)
EXTENDS Integers, Sequences, FiniteSets, TLC

VARIABLES
  user,        \* useAuth().user: a user id or NoUser
  loading,     \* useAuth().loading
  form,        \* the add form: name, sku, category, description, quantity, unitPrice, threshold
  search,      \* the search box
  store,       \* public.inventory_items: id -> row
  nextId,      \* ids handed out so far (gen_random_uuid never repeats)
  issued,      \* mutations started so far (the mutationId of the mutation cache)
  now,         \* the store's clock, now()
  items,       \* query cache "inventory-items": [loaded, data, failed]
  invalidated, \* the query is marked stale by invalidateQueries
  fetch,       \* the List request of the query: [phase, caller, data]
  pending,     \* mutations in flight: sequence of [kind, caller, phase, id, newQty, row, affected]
  toast,       \* the last notification shown
  filtered,    \* the useMemo value: the rows to show
  table,       \* the table body rendered from filtered: sequence of [key, low]
  dialog       \* the open confirm() dialog: Null, or <<id>> of the row it asks about

vars == <<user, loading, form, search, store, nextId, issued, now, items, invalidated,
          fetch, pending, toast, filtered, table, dialog>>

----------------------------------------------------------------------------
(* Bounds of the model *)

MaxMutations == 3
MaxItems == 2
MaxSearchLen == 2

(* Program constants *)

DefaultQuantity == 0
DefaultThreshold == 10

----------------------------------------------------------------------------
(* Values *)

NoUser == "none"
Users == {"A", "B"}

Null == <<>>
Some(x) == <<x>>

EmptyStr == <<>>

----------------------------------------------------------------------------
(* String functions of JavaScript, on sequences of characters *)

IsSpace(c) == c = " "

RECURSIVE TrimStart(_)
TrimStart(s) ==
  IF s = <<>> THEN <<>>
  ELSE IF IsSpace(Head(s)) THEN TrimStart(Tail(s)) ELSE s

RECURSIVE TrimEnd(_)
TrimEnd(s) ==
  IF s = <<>> THEN <<>>
  ELSE IF IsSpace(s[Len(s)]) THEN TrimEnd(SubSeq(s, 1, Len(s) - 1)) ELSE s

Trim(s) == TrimEnd(TrimStart(s))

LowerChar(c) ==
  CASE c = "A" -> "a"
    [] c = "B" -> "b"
    [] OTHER -> c

ToLowerCase(s) == [i \in 1..Len(s) |-> LowerChar(s[i])]

RECURSIVE StartsWith(_, _)
StartsWith(s, q) ==
  IF q = <<>> THEN TRUE
  ELSE IF s = <<>> THEN FALSE
  ELSE Head(s) = Head(q) /\ StartsWith(Tail(s), Tail(q))

RECURSIVE Includes(_, _)
Includes(s, q) ==
  IF StartsWith(s, q) THEN TRUE
  ELSE IF s = <<>> THEN FALSE
  ELSE Includes(Tail(s), q)

(* x || null on a string: the empty string is falsy *)
OrNull(s) == IF s = EmptyStr THEN Null ELSE Some(s)

----------------------------------------------------------------------------
(* View layer: the filtered list and the low stock flag *)

(* Boolean(f) on a nullable string: null and "" are falsy *)
Truthy(f) == f # Null /\ f[1] # EmptyStr

SearchFields(it) == <<Some(it.name), it.sku, it.category, it.description>>

(* the match without lowering the field *)
ItemMatchesCaseSensitive(it, q) ==
  \E k \in DOMAIN SearchFields(it) :
    /\ Truthy(SearchFields(it)[k])
    /\ Includes(SearchFields(it)[k][1], q)

ItemMatches(it, q) ==
  \E k \in DOMAIN SearchFields(it) :
    /\ Truthy(SearchFields(it)[k])
    /\ Includes(ToLowerCase(SearchFields(it)[k][1]), q)

RECURSIVE FilterItems(_, _)
FilterItems(its, q) ==
  IF its = <<>> THEN <<>>
  ELSE IF ItemMatches(Head(its), q)
       THEN <<Head(its)>> \o FilterItems(Tail(its), q)
       ELSE FilterItems(Tail(its), q)

filteredMemo(cache, s) ==
  IF ~cache.loaded THEN <<>>
  ELSE LET q == ToLowerCase(Trim(s))
       IN IF q = EmptyStr THEN cache.data ELSE FilterItems(cache.data, q)

(* the flag with a strict comparison *)
lowStrict(it) ==
  /\ it.low_stock_threshold # Null
  /\ it.quantity < it.low_stock_threshold[1]

low(it) ==
  /\ it.low_stock_threshold # Null
  /\ it.quantity <= it.low_stock_threshold[1]

(* filtered.map: one table row per item, keyed by id and marked when low *)
TableBody(its) == [k \in DOMAIN its |-> [key |-> its[k].id, low |-> low(its[k])]]

----------------------------------------------------------------------------
(* The store: table, policies, trigger *)

(* a select policy that lets every caller see every row *)
SelectPolicyOpen(uid, row) == TRUE

SelectPolicy(uid, row) == uid # NoUser /\ uid = row.user_id
InsertPolicy(uid, row) == uid # NoUser /\ uid = row.user_id
UpdatePolicy(uid, row) == uid # NoUser /\ uid = row.user_id
DeletePolicy(uid, row) == uid # NoUser /\ uid = row.user_id

update_updated_at_column(row, t) == [row EXCEPT !.updated_at = t]

RECURSIVE OrderByCreatedDesc(_)
OrderByCreatedDesc(rows) ==
  IF rows = {} THEN <<>>
  ELSE LET r == CHOOSE x \in rows : \A y \in rows : y.created_at <= x.created_at
       IN <<r>> \o OrderByCreatedDesc(rows \ {r})

(* select * from inventory_items order by created_at desc, as uid *)
SelectItems(tbl, uid) ==
  OrderByCreatedDesc({tbl[id] : id \in {x \in DOMAIN tbl : SelectPolicy(uid, tbl[x])}})

(* insert: the row as stored, with the column defaults of the table *)
NewRow(payload, id, t) ==
  [id |-> id,
   user_id |-> payload.user_id,
   name |-> payload.name,
   description |-> payload.description,
   sku |-> payload.sku,
   category |-> payload.category,
   quantity |-> payload.quantity,
   unit_price |-> payload.unit_price,
   low_stock_threshold |-> payload.low_stock_threshold,
   created_at |-> t,
   updated_at |-> t]

InsertAccepted(uid, payload) == InsertPolicy(uid, payload)

InsertItem(tbl, payload, id, t) ==
  [x \in DOMAIN tbl \cup {id} |-> IF x = id THEN NewRow(payload, id, t) ELSE tbl[x]]

(* rows an update or delete by id reaches: the row must be visible to the caller *)
UpdateTargets(tbl, uid, id) ==
  {x \in DOMAIN tbl : x = id /\ SelectPolicy(uid, tbl[x]) /\ UpdatePolicy(uid, tbl[x])}

DeleteTargets(tbl, uid, id) ==
  {x \in DOMAIN tbl : x = id /\ SelectPolicy(uid, tbl[x]) /\ DeletePolicy(uid, tbl[x])}

(* an update that adds to the stored quantity instead of replacing it *)
UpdateItemAdding(tbl, uid, id, newQty, t) ==
  [x \in DOMAIN tbl |->
     IF x \in UpdateTargets(tbl, uid, id)
     THEN update_updated_at_column([tbl[x] EXCEPT !.quantity = @ + newQty], t)
     ELSE tbl[x]]

(* update inventory_items set quantity = newQty where id = id, as uid *)
UpdateItem(tbl, uid, id, newQty, t) ==
  [x \in DOMAIN tbl |->
     IF x \in UpdateTargets(tbl, uid, id)
     THEN update_updated_at_column([tbl[x] EXCEPT !.quantity = newQty], t)
     ELSE tbl[x]]

(* delete from inventory_items where id = id, as uid *)
DeleteItem(tbl, uid, id) ==
  [x \in DOMAIN tbl \ DeleteTargets(tbl, uid, id) |-> tbl[x]]

----------------------------------------------------------------------------
(* The add form *)

(* A number state of the form is <<n>>, or NaN when parseInt found no digits *)
NaN == <<>>
IsFinite(x) == x # NaN

(* The unit price text is "" (<<>>) or <<n>>, a decimal text worth n thousandths *)
NoPriceText == <<>>

(* Number(parseFloat(text).toFixed(2)), in cents *)
ToFixed2(thousandths) == (thousandths + 5) \div 10

FormDefault ==
  [name |-> EmptyStr, sku |-> EmptyStr, category |-> EmptyStr, description |-> EmptyStr,
   quantity |-> <<DefaultQuantity>>, unitPrice |-> NoPriceText,
   threshold |-> <<DefaultThreshold>>]

(* What the user has typed into the form *)
FormInputs ==
  { [FormDefault EXCEPT !.name = <<" ">>, !.sku = <<"b">>, !.quantity = <<1>>],
    [FormDefault EXCEPT !.name = <<" ", "a">>, !.sku = <<" ", "b">>,
                        !.description = <<"B", " ">>, !.category = <<" ">>,
                        !.quantity = <<-2>>, !.unitPrice = <<19999>>, !.threshold = NaN] }

(* the object handed to insert() *)
AddPayload(f, u) ==
  [user_id |-> u,
   name |-> Trim(f.name),
   description |-> OrNull(Trim(f.description)),
   sku |-> OrNull(Trim(f.sku)),
   category |-> OrNull(Trim(f.category)),
   quantity |-> IF IsFinite(f.quantity) THEN f.quantity[1] ELSE DefaultQuantity,
   unit_price |-> IF f.unitPrice # NoPriceText THEN Some(ToFixed2(f.unitPrice[1])) ELSE Null,
   low_stock_threshold |-> Some(IF IsFinite(f.threshold) THEN f.threshold[1]
                                ELSE DefaultThreshold)]

(* the name check without trim() *)
NameIsValidUntrimmed(f) == f.name # EmptyStr

NameIsValid(f) == Trim(f.name) # EmptyStr

----------------------------------------------------------------------------
(* The query and the mutations *)

Idle == [phase |-> "idle", caller |-> NoUser]

(* a query that is not gated on the session *)
QueryAlwaysEnabled(u, l) == TRUE

QueryEnabled(u, l) == u # NoUser /\ ~l

(* the page body is rendered: not loading, a user is signed in *)
PageShown == ~loading /\ user # NoUser

(* window.confirm() is synchronous: while its dialog is open no handler of the page runs *)
Unblocked == dialog = Null

Mutation(kind, caller, id, newQty, row) ==
  [kind |-> kind, caller |-> caller, id |-> id, newQty |-> newQty, row |-> row]

Remove(seq, i) == SubSeq(seq, 1, i - 1) \o SubSeq(seq, i + 1, Len(seq))

AddIsPending == \E i \in DOMAIN pending : pending[i].kind = "add"

(* a success handler that leaves the query alone *)
InvalidateNothing == UNCHANGED <<invalidated, fetch>>

(* queryClient.invalidateQueries: mark stale, and refetch when the query is active *)
InvalidateQueries ==
  /\ invalidated' = TRUE
  /\ fetch' = IF QueryEnabled(user, loading)
              THEN [phase |-> "sent", caller |-> user]
              ELSE fetch

Init ==
  /\ user = NoUser
  /\ loading = TRUE
  /\ form = FormDefault
  /\ search = EmptyStr
  /\ store = <<>>
  /\ nextId = 0
  /\ issued = 0
  /\ now = 0
  /\ items = [loaded |-> FALSE, data |-> <<>>, failed |-> FALSE]
  /\ invalidated = FALSE
  /\ fetch = Idle
  /\ pending = <<>>
  /\ toast = "none"
  /\ filtered = <<>>
  /\ table = <<>>
  /\ dialog = Null

(* useAuth reports the session: signed in as u, or signed out *)
AuthStateChange(u) ==
  /\ Unblocked
  /\ loading \/ u # user
  /\ user' = u
  /\ loading' = FALSE
  /\ fetch' = IF QueryEnabled(u, FALSE) /\ fetch.phase = "idle"
              THEN [phase |-> "sent", caller |-> u]
              ELSE fetch
  /\ UNCHANGED <<dialog, form, search, store, nextId, issued, now, items, invalidated, pending, toast,
                 filtered, table>>

(* the onChange handlers of the add form *)
EditForm(f) ==
  /\ Unblocked
  /\ PageShown
  /\ f # form
  /\ form' = f
  /\ UNCHANGED <<dialog, user, loading, search, store, nextId, issued, now, items, invalidated, fetch,
                 pending, toast, filtered, table>>

addItem_onSuccess ==
  /\ InvalidateQueries
  /\ form' = FormDefault
  /\ toast' = "Item added"

(* an error handler that also clears the form *)
addItem_onErrorClearing ==
  /\ toast' = "Add failed"
  /\ form' = FormDefault
  /\ UNCHANGED <<invalidated, fetch>>

addItem_onError ==
  /\ toast' = "Add failed"
  /\ UNCHANGED <<form, invalidated, fetch>>

updateQuantity_onSuccess ==
  /\ InvalidateQueries
  /\ UNCHANGED toast

updateQuantity_onError ==
  /\ toast' = "Update failed"
  /\ UNCHANGED <<invalidated, fetch>>

deleteItem_onSuccess ==
  /\ InvalidateQueries
  /\ toast' = "Item deleted"

deleteItem_onError ==
  /\ toast' = "Delete failed"
  /\ UNCHANGED <<invalidated, fetch>>

(* addItem.mutate(): mutationFn up to the insert call; a name that is empty after
   trim throws before the store is reached and onError runs *)
ClickAdd ==
  /\ Unblocked
  /\ PageShown
  /\ ~AddIsPending
  /\ IF ~NameIsValid(form)
     THEN /\ addItem_onError
          /\ UNCHANGED <<pending, issued>>
     ELSE /\ issued < MaxMutations
          /\ pending' = Append(pending, Mutation("add", user, 0, 0, Some(AddPayload(form, user))))
          /\ issued' = issued + 1
          /\ UNCHANGED <<form, invalidated, fetch, toast>>
  /\ UNCHANGED <<dialog, user, loading, search, store, nextId, now, items, filtered, table>>

(* the decrease button of row i *)
ClickDecrease(i) ==
  /\ Unblocked
  /\ PageShown
  /\ issued < MaxMutations
  /\ LET it == filtered[i]
         newQty == IF it.quantity - 1 > 0 THEN it.quantity - 1 ELSE 0
     IN pending' = Append(pending, Mutation("update", user, it.id, newQty, Null))
  /\ issued' = issued + 1
  /\ UNCHANGED <<dialog, user, loading, form, search, store, nextId, now, items, invalidated,
                 fetch, toast, filtered, table>>

(* the increase button of row i *)
ClickIncrease(i) ==
  /\ Unblocked
  /\ PageShown
  /\ issued < MaxMutations
  /\ LET it == filtered[i]
     IN pending' = Append(pending, Mutation("update", user, it.id, it.quantity + 1, Null))
  /\ issued' = issued + 1
  /\ UNCHANGED <<dialog, user, loading, form, search, store, nextId, now, items, invalidated,
                 fetch, toast, filtered, table>>

(* the delete button of row i: onClick calls confirm("Delete this item?"), which opens
   the dialog and blocks *)
ClickDelete(i) ==
  /\ Unblocked
  /\ PageShown
  /\ dialog' = Some(filtered[i].id)
  /\ UNCHANGED <<user, loading, form, search, store, nextId, issued, now, items, invalidated,
                 fetch, pending, toast, filtered, table>>

(* a handler that does not look at what confirm() returned *)
confirmIgnored(answer) ==
  /\ dialog # Null
  /\ issued < MaxMutations
  /\ pending' = Append(pending, Mutation("delete", user, dialog[1], 0, Null))
  /\ issued' = issued + 1
  /\ dialog' = Null
  /\ UNCHANGED <<user, loading, form, search, store, nextId, now, items, invalidated,
                 fetch, toast, filtered, table>>

(* confirm() returns the user's answer and onClick goes on: deleteItem.mutate(it.id) on
   OK, nothing on Cancel *)
confirm(answer) ==
  /\ dialog # Null
  /\ IF answer
     THEN /\ issued < MaxMutations
          /\ pending' = Append(pending, Mutation("delete", user, dialog[1], 0, Null))
          /\ issued' = issued + 1
     ELSE UNCHANGED <<pending, issued>>
  /\ dialog' = Null
  /\ UNCHANGED <<user, loading, form, search, store, nextId, now, items, invalidated,
                 fetch, toast, filtered, table>>

(* addItem: the insert of mutation i is answered (failed: the store or the transport
   reports an error), then onSuccess or onError runs *)
AddSettles(i, failed) ==
  /\ Unblocked
  /\ pending[i].kind = "add"
  /\ pending' = Remove(pending, i)
  /\ LET m == pending[i]
     IN IF failed \/ ~InsertAccepted(m.caller, m.row[1])
        THEN /\ addItem_onError
             /\ UNCHANGED <<store, nextId, now>>
        ELSE /\ store' = InsertItem(store, m.row[1], nextId + 1, now + 1)
             /\ nextId' = nextId + 1
             /\ now' = now + 1
             /\ addItem_onSuccess
  /\ UNCHANGED <<dialog, user, loading, search, issued, items, filtered, table>>

(* updateQuantity: the update of mutation i is answered, then onSuccess or onError runs *)
UpdateSettles(i, failed) ==
  /\ Unblocked
  /\ pending[i].kind = "update"
  /\ pending' = Remove(pending, i)
  /\ LET m == pending[i]
         n == Cardinality(UpdateTargets(store, m.caller, m.id))
     IN IF failed
        THEN /\ updateQuantity_onError
             /\ UNCHANGED <<store, now>>
        ELSE /\ store' = UpdateItem(store, m.caller, m.id, m.newQty, now + 1)
             /\ now' = IF n > 0 THEN now + 1 ELSE now
             /\ updateQuantity_onSuccess
  /\ UNCHANGED <<dialog, user, loading, form, search, nextId, issued, items, filtered, table>>

(* deleteItem: the delete of mutation i is answered, then onSuccess or onError runs *)
DeleteSettles(i, failed) ==
  /\ Unblocked
  /\ pending[i].kind = "delete"
  /\ pending' = Remove(pending, i)
  /\ LET m == pending[i]
     IN IF failed
        THEN /\ deleteItem_onError
             /\ UNCHANGED store
        ELSE /\ store' = DeleteItem(store, m.caller, m.id)
             /\ deleteItem_onSuccess
  /\ UNCHANGED <<dialog, user, loading, form, search, nextId, issued, now, items, filtered, table>>

(* the query observer refetches a stale query (mount, window focus) *)
Refetch ==
  /\ Unblocked
  /\ QueryEnabled(user, loading)
  /\ fetch.phase = "idle"
  /\ fetch' = [phase |-> "sent", caller |-> user]
  /\ UNCHANGED <<dialog, user, loading, form, search, store, nextId, issued, now, items, invalidated,
                 pending, toast, filtered, table>>

(* queryFn: the select is answered; data replaces the cached list and the memo is
   recomputed, an error leaves the cached data as it was *)
ListSettles(failed) ==
  /\ Unblocked
  /\ fetch.phase = "sent"
  /\ fetch' = Idle
  /\ IF failed
     THEN /\ items' = [items EXCEPT !.failed = TRUE]
          /\ UNCHANGED <<invalidated, filtered, table>>
     ELSE /\ items' = [loaded |-> TRUE, data |-> SelectItems(store, fetch.caller),
                       failed |-> FALSE]
          /\ invalidated' = FALSE
          /\ filtered' = filteredMemo(items', search)
          /\ table' = TableBody(filtered')
  /\ UNCHANGED <<dialog, user, loading, form, search, store, nextId, issued, now, pending, toast>>

Next ==
  \/ \E u \in Users \cup {NoUser} : AuthStateChange(u)
  \/ \E f \in FormInputs : EditForm(f)
  \/ ClickAdd
  \/ \E i \in DOMAIN filtered : ClickDecrease(i)
  \/ \E i \in DOMAIN filtered : ClickIncrease(i)
  \/ \E i \in DOMAIN filtered : ClickDelete(i)
  \/ \E answer \in BOOLEAN : confirm(answer)
  \/ \E i \in DOMAIN pending, failed \in BOOLEAN : AddSettles(i, failed)
  \/ \E i \in DOMAIN pending, failed \in BOOLEAN : UpdateSettles(i, failed)
  \/ \E i \in DOMAIN pending, failed \in BOOLEAN : DeleteSettles(i, failed)
  \/ Refetch
  \/ \E failed \in BOOLEAN : ListSettles(failed)

Spec == Init /\ [][Next]_vars

----------------------------------------------------------------------------
(* The view functions on their own: any cached list, any search text *)

Chars == {"a", "b", "B", " "}

RECURSIVE StringsUpTo(_)
StringsUpTo(n) ==
  IF n = 0 THEN {<<>>}
  ELSE LET shorter == StringsUpTo(n - 1)
       IN shorter \cup {Append(t, c) : t \in shorter, c \in Chars}

SearchInputs == StringsUpTo(MaxSearchLen)

ViewRow(id, name, sku, category, description, quantity, threshold) ==
  [id |-> id, user_id |-> "A", name |-> name, description |-> description, sku |-> sku,
   category |-> category, quantity |-> quantity, unit_price |-> Null,
   low_stock_threshold |-> threshold, created_at |-> 1, updated_at |-> 1]

ViewRows ==
  { ViewRow(1, <<"a", "B">>, Null, Null, Null, 5, Some(5)),
    ViewRow(2, <<"b">>, Some(<<"B", "a">>), Null, Null, 0, Null),
    ViewRow(3, <<"a">>, Null, Some(<<"a", " ", "b">>), Null, 11, Some(10)),
    ViewRow(4, <<"B", " ">>, Null, Null, Some(<<"b", "B">>), -1, Some(0)),
    ViewRow(5, <<"a">>, Null, Null, Some(EmptyStr), 0, Some(-1)) }

RECURSIVE ListsUpTo(_)
ListsUpTo(n) ==
  IF n = 0 THEN {<<>>}
  ELSE LET shorter == ListsUpTo(n - 1)
       IN shorter \cup {Append(l, r) : l \in shorter, r \in ViewRows}

ViewInit ==
  /\ user = "A"
  /\ loading = FALSE
  /\ form = FormDefault
  /\ search \in SearchInputs
  /\ store = <<>>
  /\ nextId = 0
  /\ issued = 0
  /\ now = 0
  /\ items \in {[loaded |-> FALSE, data |-> <<>>, failed |-> FALSE]}
               \cup {[loaded |-> TRUE, data |-> l, failed |-> FALSE] : l \in ListsUpTo(MaxItems)}
  /\ invalidated = FALSE
  /\ fetch = Idle
  /\ pending = <<>>
  /\ toast = "none"
  /\ filtered = filteredMemo(items, search)
  /\ table = TableBody(filtered)
  /\ dialog = Null

(* the onChange handler of the search box; the memo is recomputed *)
SetSearch(s) ==
  /\ Unblocked
  /\ PageShown
  /\ search' = s
  /\ filtered' = filteredMemo(items, s)
  /\ table' = TableBody(filtered')
  /\ UNCHANGED <<dialog, user, loading, form, store, nextId, issued, now, items, invalidated,
                 fetch, pending, toast>>

ViewNext == \E s \in SearchInputs : SetSearch(s)

ViewSpec == ViewInit /\ [][ViewNext]_vars

----------------------------------------------------------------------------
(* Claims about the view, checked under ViewSpec *)

NonSpaceAt(s) == {i \in 1..Len(s) : s[i] # " "}
Least(S) == CHOOSE x \in S : \A y \in S : x <= y
Greatest(S) == CHOOSE x \in S : \A y \in S : y <= x

(* the search text without its leading and trailing blanks, in lower case *)
SearchKey(s) ==
  IF NonSpaceAt(s) = {} THEN <<>>
  ELSE LET t == SubSeq(s, Least(NonSpaceAt(s)), Greatest(NonSpaceAt(s)))
       IN [i \in 1..Len(t) |-> IF t[i] = "A" THEN "a" ELSE IF t[i] = "B" THEN "b" ELSE t[i]]

SameLetter(c, d) == c = d \/ {c, d} = {"a", "A"} \/ {c, d} = {"b", "B"}

(* q occurs in text f somewhere, letter case ignored *)
OccursIn(q, f) ==
  \E o \in 0..(Len(f) - Len(q)) : \A k \in 1..Len(q) : SameLetter(f[o + k], q[k])

(* at least one non-null field among name, sku, category, description contains q *)
SomeFieldContains(it, q) ==
  \/ OccursIn(q, it.name)
  \/ it.sku # Null /\ OccursIn(q, it.sku[1])
  \/ it.category # Null /\ OccursIn(q, it.category[1])
  \/ it.description # Null /\ OccursIn(q, it.description[1])

MatchingAt(data, q) == {j \in 1..Len(data) : SomeFieldContains(data[j], q)}

(* the k-th smallest element of a set of numbers *)
Kth(S, k) == CHOOSE j \in S : Cardinality({x \in S : x < j}) = k - 1

(* C8: the filtered view is exactly the sub-list, in original order, of the cached
   items with a non-null field among name, sku, category, description that contains
   the trimmed, lowercased search text, letter case ignored; an empty or blank search
   gives every item in original order; an absent list gives the empty list. *)
C8_FilteredIsMatchingSublist ==
  IF ~items.loaded THEN filtered = <<>>
  ELSE IF SearchKey(search) = <<>> THEN filtered = items.data
  ELSE LET at == MatchingAt(items.data, SearchKey(search))
       IN /\ Len(filtered) = Cardinality(at)
          /\ \A k \in 1..Len(filtered) : filtered[k] = items.data[Kth(at, k)]

(* a search with blanks around an upper case letter keeps the second of two items
   and drops the first *)
C8_Witness ==
  /\ items.loaded
  /\ Len(items.data) = 2
  /\ search = <<" ", "B">>
  /\ filtered = <<items.data[2]>>
  /\ items.data[1] # items.data[2]

(* C10: a shown item with a non-null low_stock_threshold is flagged low iff its
   quantity <= the threshold; an item with a null threshold is never flagged. *)
C10_LowFlag ==
  /\ Len(table) = Len(filtered)
  /\ \A k \in DOMAIN filtered :
       /\ table[k].key = filtered[k].id
       /\ filtered[k].low_stock_threshold # Null =>
            (table[k].low <=> filtered[k].quantity <= filtered[k].low_stock_threshold[1])
       /\ filtered[k].low_stock_threshold = Null => ~table[k].low

(* shown together: an item with no threshold, not flagged, and an item at exactly its
   threshold, flagged *)
C10_Witness ==
  /\ Len(filtered) = 2
  /\ filtered[1].low_stock_threshold = Null /\ ~table[1].low
  /\ filtered[2].low_stock_threshold # Null
  /\ filtered[2].quantity = filtered[2].low_stock_threshold[1]
  /\ table[2].low

----------------------------------------------------------------------------
(* Claims about the page and the store, checked under Spec *)

MutationSettles(i) ==
  \E failed \in BOOLEAN :
    AddSettles(i, failed) \/ UpdateSettles(i, failed) \/ DeleteSettles(i, failed)

(* C1: a call made as user A returns, changes and removes no row of another owner,
   and creates no row owned by anyone but A; the store changes in no other step. *)
C1_OwnershipIsolation ==
  [][ /\ ListSettles(FALSE) =>
           \A k \in DOMAIN items'.data : items'.data[k].user_id = fetch.caller
      /\ \A i \in DOMAIN pending :
           MutationSettles(i) =>
             /\ \A id \in DOMAIN store :
                  store[id].user_id # pending[i].caller =>
                    id \in DOMAIN store' /\ store'[id] = store[id]
             /\ \A id \in DOMAIN store' \ DOMAIN store :
                  store'[id].user_id = pending[i].caller
      /\ store' # store => \E i \in DOMAIN pending : MutationSettles(i)
    ]_vars

(* one row was ever inserted; a second mutation, a delete, was answered without error
   and the row is still there: the delete came from the other user *)
C1_Witness ==
  /\ nextId = 1 /\ issued = 2 /\ pending = <<>>
  /\ toast = "Item deleted"
  /\ 1 \in DOMAIN store
  /\ store[1].user_id # user /\ user # NoUser

(* C2: every stored item has quantity >= 0. *)
C2_QuantityNonNegative == \A id \in DOMAIN store : store[id].quantity >= 0

(* C3 as stated: a submitted Create writes a row iff the trimmed name is non-empty:
   every insert that was sent (the name was non-empty) ends with a new row. *)
C3_RowWrittenIffNameGiven ==
  [][ \A i \in DOMAIN pending :
        (pending[i].kind = "add" /\ pending' = Remove(pending, i)) =>
          DOMAIN store' # DOMAIN store ]_vars

(* C3 amended: a row is written only for a name that is non-empty after trimming, and
   is written when the name is non-empty and the store accepts the insert; an empty
   trimmed name fails before the store is contacted and the rows are unchanged; a
   store-reported failure writes no row. *)
C3_CreateValidation ==
  /\ [](\A i \in DOMAIN pending :
          pending[i].kind = "add" => pending[i].row[1].name # EmptyStr)
  /\ [](\A id \in DOMAIN store :
          store[id].name # EmptyStr /\ NonSpaceAt(store[id].name) # {}
          /\ store[id].name[1] # " " /\ store[id].name[Len(store[id].name)] # " ")
  /\ [][ /\ (ClickAdd /\ NonSpaceAt(form.name) = {}) =>
              (pending' = pending /\ store' = store /\ toast' = "Add failed")
         /\ (ClickAdd /\ NonSpaceAt(form.name) # {}) =>
              (Len(pending') = Len(pending) + 1 /\ store' = store)
         /\ \A i \in DOMAIN pending :
              /\ AddSettles(i, FALSE) =>
                   /\ Cardinality(DOMAIN store') = Cardinality(DOMAIN store) + 1
                   /\ \A id \in DOMAIN store : id \in DOMAIN store' /\ store'[id] = store[id]
                   /\ \A id \in DOMAIN store' \ DOMAIN store :
                        store'[id].name = pending[i].row[1].name
              /\ AddSettles(i, TRUE) => store' = store
       ]_vars

(* a row named "a" is stored, made from the form text " a", and a later submit with a
   blank name has failed *)
C3_Witness ==
  /\ \E id \in DOMAIN store : store[id].name = <<"a">>
  /\ form.name = <<" ">>
  /\ toast = "Add failed"
  /\ pending = <<>>

(* C4: an UpdateQuantity or Delete whose id names no row, or a row of another owner,
   runs the failure path and not the success path. *)
C4_MissingOrForeignRowFails ==
  [][ \A i \in DOMAIN pending :
        /\ (UpdateSettles(i, FALSE) /\ UpdateTargets(store, pending[i].caller, pending[i].id) = {})
             => (toast' = "Update failed" /\ invalidated' = invalidated /\ fetch' = fetch)
        /\ (DeleteSettles(i, FALSE) /\ DeleteTargets(store, pending[i].caller, pending[i].id) = {})
             => (toast' = "Delete failed" /\ invalidated' = invalidated /\ fetch' = fetch)
    ]_vars

(* mutation i is answered without error and its success handler runs *)
MutationSucceeds(i) ==
  \/ AddSettles(i, FALSE) /\ InsertAccepted(pending[i].caller, pending[i].row[1])
  \/ UpdateSettles(i, FALSE)
  \/ DeleteSettles(i, FALSE)

(* mutation i fails and its error handler runs *)
MutationFails(i) ==
  \/ AddSettles(i, TRUE)
  \/ UpdateSettles(i, TRUE)
  \/ DeleteSettles(i, TRUE)

ListInFlightFor(f, u) == f.phase = "sent" /\ f.caller = u

(* C5: every successful Create, UpdateQuantity or Delete marks the cached list stale
   and has a new List in flight for the signed-in user (with nobody signed in the
   List is issued at the next sign-in); the stale mark goes only when a List has
   delivered; the cached list changes only by being replaced with the result of a
   List, never by a mutation; and a List in flight is eventually answered. *)
C5_StaleThenRefetched ==
  /\ [][ /\ \A i \in DOMAIN pending :
              MutationSucceeds(i) =>
                /\ invalidated'
                /\ QueryEnabled(user, loading) => ListInFlightFor(fetch', user)
                /\ items' = items /\ filtered' = filtered /\ table' = table
         /\ (~QueryEnabled(user, loading) /\ QueryEnabled(user', loading')) =>
              fetch'.phase = "sent"
         /\ (invalidated /\ ~invalidated') => ListSettles(FALSE)
         /\ (items'.data # items.data \/ items'.loaded # items.loaded) =>
              /\ ListSettles(FALSE)
              /\ items'.data = SelectItems(store, fetch.caller)
       ]_vars
  /\ (fetch.phase = "sent" ~> fetch.phase = "idle")

(* the store holds a row the cache does not show yet, the list is marked stale and
   the List that will replace it is in flight *)
C5_Witness ==
  /\ invalidated
  /\ ListInFlightFor(fetch, user)
  /\ toast = "Item added"
  /\ DOMAIN store # {}
  /\ items.loaded /\ items.data = <<>>

(* C6: a failed Create leaves every field of the add form as it was; a failed
   UpdateQuantity or Delete leaves the cached and the shown list as they were and not
   invalidated; the form is reset only by a successful Create. *)
C6_FailureChangesNothing ==
  [][ /\ \A i \in DOMAIN pending :
           MutationFails(i) =>
             /\ form' = form
             /\ items' = items /\ filtered' = filtered /\ table' = table
             /\ invalidated' = invalidated /\ fetch' = fetch
             /\ store' = store
      /\ (ClickAdd /\ NonSpaceAt(form.name) = {}) =>
           /\ form' = form
           /\ items' = items /\ invalidated' = invalidated /\ fetch' = fetch
      /\ form' # form =>
           \/ \E f \in FormInputs : EditForm(f)
           \/ /\ form' = FormDefault
              /\ \E i \in DOMAIN pending : AddSettles(i, FALSE) /\ store' # store
    ]_vars

(* a Create with a valid name was sent and failed at the store: nothing is stored and
   the form still holds what was typed *)
C6_Witness ==
  /\ toast = "Add failed"
  /\ issued = 1 /\ pending = <<>>
  /\ store = <<>>
  /\ NonSpaceAt(form.name) # {}
  /\ form.quantity = <<-2>>

(* C7 as stated: with nobody signed in the List has failed. *)
C7_UnauthenticatedListFails == (~loading /\ user = NoUser) => items.failed

(* C7 amended: with nobody signed in no List is issued, so none fails: every List is
   issued for the user who is signed in at that moment, and the store gives a caller
   who is not authenticated no rows. *)
C7_NoListWithoutUser ==
  /\ [](fetch.phase = "sent" => fetch.caller \in Users)
  /\ [](SelectItems(store, NoUser) = <<>>)
  /\ [][ (fetch' # fetch /\ fetch'.phase = "sent") =>
           (~loading' /\ user' \in Users /\ fetch'.caller = user') ]_vars

(* nobody is signed in, rows are stored, and no List is in flight or has failed *)
C7_Witness ==
  /\ ~loading /\ user = NoUser
  /\ DOMAIN store # {}
  /\ fetch.phase = "idle"
  /\ ~items.failed

Blank(row) == [row EXCEPT !.quantity = 0, !.updated_at = 0]

(* C9: for every UpdateQuantity(id, v) in flight on a row of its caller, applying it
   twice leaves the row as applying it once does, updated_at aside, and neither
   application changes a field other than quantity and updated_at, or another row. *)
C9_UpdateIdempotent ==
  \A i \in DOMAIN pending :
    LET m == pending[i]
        once == UpdateItem(store, m.caller, m.id, m.newQty, now + 1)
        twice == UpdateItem(once, m.caller, m.id, m.newQty, now + 2)
    IN (m.kind = "update" /\ m.id \in UpdateTargets(store, m.caller, m.id)) =>
         /\ DOMAIN once = DOMAIN store /\ DOMAIN twice = DOMAIN store
         /\ once[m.id].quantity = m.newQty
         /\ twice[m.id].quantity = m.newQty
         /\ once[m.id].updated_at = now + 1 /\ twice[m.id].updated_at = now + 2
         /\ Blank(once[m.id]) = Blank(store[m.id])
         /\ Blank(twice[m.id]) = Blank(store[m.id])
         /\ \A x \in DOMAIN store \ {m.id} : once[x] = store[x] /\ twice[x] = store[x]

(* the same increase was sent twice from one cached row; the first has been applied
   and the second, with the value the row now holds, is in flight *)
C9_Witness ==
  \E i \in DOMAIN pending :
    /\ pending[i].kind = "update"
    /\ pending[i].id \in UpdateTargets(store, pending[i].caller, pending[i].id)
    /\ store[pending[i].id].quantity = pending[i].newQty
    /\ store[pending[i].id].updated_at > store[pending[i].id].created_at
    /\ \E k \in DOMAIN items.data :
         /\ items.data[k].id = pending[i].id
         /\ items.data[k].quantity + 1 = pending[i].newQty

Deletes(seq) == {j \in DOMAIN seq : seq[j].kind = "delete"}

(* C11: a Delete request is issued only by the step in which confirm() returns OK, for
   the row the dialog asked about, and that dialog was opened by the delete button of
   a row on show; a Cancel issues no request and leaves the store, the cached list and
   the query as they were; rows leave the store only when a Delete request is
   answered. *)
C11_DeleteOnlyAfterConfirm ==
  [][ /\ Cardinality(Deletes(pending')) > Cardinality(Deletes(pending)) =>
           /\ dialog # Null /\ dialog' = Null
           /\ confirm(TRUE)
           /\ pending' = Append(pending, pending'[Len(pending')])
           /\ pending'[Len(pending')].kind = "delete"
           /\ pending'[Len(pending')].id = dialog[1]
      /\ (dialog = Null /\ dialog' # Null) =>
           \E i \in DOMAIN filtered : filtered[i].id = dialog'[1] /\ pending' = pending
      /\ confirm(FALSE) =>
           /\ pending' = pending /\ issued' = issued
           /\ store' = store
           /\ items' = items /\ filtered' = filtered /\ table' = table
           /\ invalidated' = invalidated /\ fetch' = fetch
      /\ (\E id \in DOMAIN store : id \notin DOMAIN store') =>
           \E i \in Deletes(pending) : DeleteSettles(i, FALSE)
    ]_vars

(* a Delete request for a stored row of the signed-in user is in flight and the
   dialog that asked about it is closed *)
C11_Witness ==
  /\ dialog = Null
  /\ \E i \in Deletes(pending) :
       /\ pending[i].id \in DOMAIN store
       /\ pending[i].caller = user
       /\ store[pending[i].id].user_id = user

Abs(x) == IF x < 0 THEN -x ELSE x

(* the two values the buttons compute from a cached quantity c *)
FromCached(c) == {c + 1, IF c - 1 > 0 THEN c - 1 ELSE 0}

(* two updates of one row by one caller are in flight, both computed from the
   quantity c that the cached copy of the row holds *)
TwoFromCached(i, j, c) ==
  /\ i # j
  /\ pending[i].kind = "update" /\ pending[j].kind = "update"
  /\ pending[i].id = pending[j].id /\ pending[i].caller = pending[j].caller
  /\ pending[i].id \in UpdateTargets(store, pending[i].caller, pending[i].id)
  /\ \E k \in DOMAIN items.data :
       items.data[k].id = pending[i].id /\ items.data[k].quantity = c
  /\ pending[i].newQty \in FromCached(c) /\ pending[j].newQty \in FromCached(c)

(* the quantity of the row after update i and then update j have been applied *)
AfterBoth(i, j) ==
  LET m == pending[i]
      n == pending[j]
      first == UpdateItem(store, m.caller, m.id, m.newQty, now + 1)
  IN UpdateItem(first, n.caller, n.id, n.newQty, now + 2)[n.id].quantity

CachedQuantities == {items.data[k].quantity : k \in DOMAIN items.data}

(* C12: a + or - click sends the value computed from the row on show (quantity + 1,
   or max(0, quantity - 1)), the store writes that value whatever the row held, and
   when two updates of one row computed from the same cached quantity are in flight,
   the row ends, in either order of arrival, at most 1 away from that quantity. *)
C12_TwoClicksWithinOne ==
  /\ [][ /\ \A i \in DOMAIN filtered :
              /\ ClickIncrease(i) =>
                   /\ pending'[Len(pending')].id = filtered[i].id
                   /\ pending'[Len(pending')].newQty = filtered[i].quantity + 1
              /\ ClickDecrease(i) =>
                   /\ pending'[Len(pending')].id = filtered[i].id
                   /\ pending'[Len(pending')].newQty \in FromCached(filtered[i].quantity)
                   /\ pending'[Len(pending')].newQty >= 0
              /\ (ClickIncrease(i) \/ ClickDecrease(i)) =>
                   (store' = store /\ items' = items /\ filtered' = filtered)
         /\ \A i \in DOMAIN pending :
              (UpdateSettles(i, FALSE)
                 /\ pending[i].id \in UpdateTargets(store, pending[i].caller, pending[i].id)) =>
                   (store'[pending[i].id].quantity = pending[i].newQty /\ items' = items)
       ]_vars
  /\ [](\A i, j \in DOMAIN pending : \A c \in CachedQuantities :
          TwoFromCached(i, j, c) =>
            (Abs(AfterBoth(i, j) - c) <= 1 /\ Abs(AfterBoth(j, i) - c) <= 1))

(* One user who signs in and out and answers every confirm() dialog, and an event loop
   that serves the answer to every List whenever the page is not blocked *)
OneUserNext ==
  \/ \E u \in {"A", NoUser} : AuthStateChange(u)
  \/ \E f \in FormInputs : EditForm(f)
  \/ ClickAdd
  \/ \E i \in DOMAIN filtered : ClickDecrease(i)
  \/ \E i \in DOMAIN filtered : ClickIncrease(i)
  \/ \E i \in DOMAIN filtered : ClickDelete(i)
  \/ \E answer \in BOOLEAN : confirm(answer)
  \/ \E i \in DOMAIN pending, failed \in BOOLEAN : AddSettles(i, failed)
  \/ \E i \in DOMAIN pending, failed \in BOOLEAN : UpdateSettles(i, failed)
  \/ \E i \in DOMAIN pending, failed \in BOOLEAN : DeleteSettles(i, failed)
  \/ Refetch
  \/ \E failed \in BOOLEAN : ListSettles(failed)

FairSpec ==
  /\ Init /\ [][OneUserNext]_vars
  /\ WF_vars(\E answer \in BOOLEAN : confirm(answer))
  /\ SF_vars(\E failed \in BOOLEAN : ListSettles(failed))

====
